---- MODULE Spec2Model ----
(***************************************************************************)
(* The orchestration layer of example-dapp/src/App.tsx (StatelessApp):     *)
(* the use-case handlers, the log they share, the session state they       *)
(* guard on, and the receipts and pollers they start.                      *)
(*                                                                         *)
(* JavaScript runs one continuation at a time, so one action is the code   *)
(* a handler runs between two awaits: the settling of the promise it was   *)
(* suspended on together with everything up to the next await (or to its   *)
(* return).  The external capabilities (wallet, network, challenge         *)
(* producer) settle each call either way, chosen nondeterministically.     *)
(*                                                                         *)
(* App.tsx holds two versions of StatelessApp; the model follows the       *)
(* second (lines 316-658), whose handlers include those of the first.      *)
(* The utilities the handlers call (./utils) and the network are modelled  *)
(* from their contracts: a utility sends one request to the wallet and     *)
(* resolves with its result or rejects; pollSignatureStatus checks the     *)
(* status of a receipt a bounded number of times and reports through the   *)
(* createLog it is given.                                                  *)
(*                                                                         *)
(* Spec is StatelessApp with all its handlers.  SpecApp is the App         *)
(* component: the WalletProvider with its autoConnect callback autoSignIn  *)
(* around a StatelessApp with the handlers of the first version (lines     *)
(* 55-211): signMessage, signIn, signInError, connect and disconnect.      *)
(***************************************************************************)
EXTENDS Naturals, Sequences, FiniteSets, TLC

\* Number of handler invocations that may be in flight together.
NumProcs == 2

\* Attempt budget of one poll (spec 4.4: "a bounded number of attempts").
MaxAttempts == 1

\* Number of submissions the network accepts in a run of one invocation,
\* and in a run of several.
MaxReceipts == 3
MaxSharedReceipts == 1

Procs == 1..NumProcs

\* error.message texts an external call may reject with
ErrMsgs == {"rejected", "unavailable"}

LookupSteps == <<"create", "extend", "use">>
SubmitSteps == {"send", "create", "extend", "use"}

\* A receipt is named by the invocation and the step that submitted it.
Rcpts == Procs \X SubmitSteps

\* Who appended a log entry: a handler invocation, a poller, or the
\* connect effect.  (Ghost: TLog has no such field.)
HandlerSrc(p) == <<p, "handler">>
EffectSrc == <<0, "effect">>
Sources == {HandlerSrc(p) : p \in Procs} \cup Rcpts \cup {EffectSrc}

VARIABLES
  wallet,      \* useWallet().wallet is non-null
  publicKey,   \* useWallet().publicKey is non-null
  logs,        \* the logs state of StatelessApp
  inv,         \* inv[p]: handler and await point of invocation p
  net,         \* net[r]: the network's status of receipt r
  poller,      \* poller[r]: the poll started on receipt r
  emitted,     \* ghost: emitted[s], the entries source s passed to createLog
               \*        since the log was last cleared
  wreq,        \* ghost: wreq[p], the requests p sent to the wallet's signer
  thrown,      \* ghost: thrown[p], the error raised in p: its message and
               \*        the await it came from
  infoLogged,  \* ghost: infoLogged[p], p has appended an info entry
  hist,        \* ghost: hist[s], the entries source s ever passed to createLog
  anchors,     \* ghost: anchors[p], the anchors (recent blockhashes) fetched
               \*        for p and those its transactions were built on
  handed,      \* ghost: handed[r], the calls of pollSignatureStatus on r
  auto         \* the call of autoSignIn by the WalletProvider

vars == <<wallet, publicKey, logs, inv, net, poller, emitted, wreq, thrown,
          infoLogged, hist, anchors, handed, auto>>

----------------------------------------------------------------------------
\* TLog, with the ghost field src
Entry(src, status, method, message) ==
  [status |-> status, method |-> method, message |-> message, src |-> src]

Visible(e) == [status |-> e.status, method |-> e.method, message |-> e.message]

\* A plausible slip: setLogs([...logs, log]) over a stale, empty `logs`.
CreateLogStale(l, log) == <<log>>

\* A plausible slip: the updater runs twice and appends each time.
CreateLogTwice(l, log) == Append(Append(l, log), log)

\* createLog: setLogs((logs) => [...logs, log])
CreateLog(l, log) == Append(l, log)

\* One createLog call by the source of the entry.
Log(e) ==
  /\ logs' = CreateLog(logs, e)
  /\ emitted' = [emitted EXCEPT ![e.src] = Append(@, e)]
  /\ hist' = [hist EXCEPT ![e.src] = Append(@, e)]
  /\ infoLogged' = IF e.status = "info" /\ e.src[2] = "handler"
                   THEN [infoLogged EXCEPT ![e.src[1]] = TRUE]
                   ELSE infoLogged

NoLog == UNCHANGED <<logs, emitted, infoLogged, hist>>

\* A plausible slip: `if (!publicKey && !wallet) return;`
GuardEither == publicKey \/ wallet

\* The handlers go on only past `if (!publicKey || !wallet) return;`
Guard == publicKey /\ wallet

\* An account reference and a wallet are present.
Connected == publicKey /\ wallet

\* A request reaches the wallet's signer (signMessage, signIn,
\* signTransaction, signAllTransactions or sendTransaction).  Ghost: the
\* record keeps what held when the request was sent.
Request(p, h, step) ==
  wreq' = [wreq EXCEPT ![p] = Append(@, [h |-> h, step |-> step,
                                         conn |-> Connected,
                                         info |-> infoLogged'[p]])]

NoError == [msg |-> "none", at |-> "none"]

At(p, h, pc) == inv[p].h = h /\ inv[p].pc = pc

Goto(p, pc) == inv' = [inv EXCEPT ![p].pc = pc]

\* The catch block of a handler: one error entry, then the handler returns.
Catch(p, e) ==
  /\ Log(Entry(HandlerSrc(p), "error", inv[p].h, e))
  /\ thrown' = [thrown EXCEPT ![p] = [msg |-> e, at |-> inv[p].pc]]
  /\ Goto(p, "done")

\* A rejection outside any try block: the handler's promise rejects.
Escape(p, e) ==
  /\ NoLog
  /\ thrown' = [thrown EXCEPT ![p] = [msg |-> e, at |-> inv[p].pc]]
  /\ Goto(p, "escaped")

\* autoSignIn has not been called.  Ghost: the adapter it was called with,
\* the calls it made, the verdict of verifySignIn, and whether adapter.signIn
\* left its account with the session.
NoAttempt ==
  [pc |-> "idle", adapter |-> "none", challenges |-> 0, signIns |-> 0,
   verdict |-> "none", activated |-> FALSE]

Init ==
  /\ wallet = FALSE
  /\ publicKey = FALSE
  /\ logs = <<>>
  /\ inv = [p \in Procs |-> [h |-> "none", pc |-> "idle"]]
  /\ net = [r \in Rcpts |-> "none"]
  /\ poller = [r \in Rcpts |-> [last |-> "off", n |-> 0]]
  /\ emitted = [s \in Sources |-> <<>>]
  /\ wreq = [p \in Procs |-> <<>>]
  /\ thrown = [p \in Procs |-> NoError]
  /\ infoLogged = [p \in Procs |-> FALSE]
  /\ hist = [s \in Sources |-> <<>>]
  /\ anchors = [p \in Procs |-> [fetched |-> <<>>, used |-> <<>>]]
  /\ handed = [r \in Rcpts |-> <<>>]
  /\ auto = NoAttempt

----------------------------------------------------------------------------
\* The session provider (useWallet), outside the handlers.

SelectWallet ==
  /\ ~wallet
  /\ wallet' = TRUE
  /\ NoLog
  /\ UNCHANGED <<publicKey, inv, net, poller, wreq, thrown, anchors, handed, auto>>

\* The wallet connects; the effect on [publicKey, wallet] logs the account.
WalletConnected ==
  /\ wallet /\ ~publicKey
  /\ publicKey' = TRUE
  /\ Log(Entry(EffectSrc, "success", "connect", "Connected to account"))
  /\ UNCHANGED <<wallet, inv, net, poller, wreq, thrown, anchors, handed, auto>>

\* clearLogs: setLogs([])
ClearLogs ==
  /\ logs' = <<>>
  /\ emitted' = [s \in Sources |-> <<>>]
  /\ UNCHANGED <<wallet, publicKey, inv, net, poller, wreq, thrown, infoLogged,
                 hist, anchors, handed, auto>>

----------------------------------------------------------------------------
\* Pieces the handlers share.

\* The bounds of a run: invocations take the slots in order, and the network
\* stops accepting submissions at the budget of the run.
ReceiptCount == Cardinality({r \in Rcpts : net[r] # "none"})

ReceiptBudget ==
  IF \E p \in Procs : p > 1 /\ inv[p].pc # "idle"
  THEN MaxSharedReceipts ELSE MaxReceipts

\* Entry of a handler: return at once unless Guard, else run to the first
\* await, pc.
Enter(p, h, pc) ==
  /\ inv[p].pc = "idle"
  /\ \A q \in Procs : q < p => inv[q].pc # "idle"
  /\ p > 1 => ReceiptCount <= MaxSharedReceipts
  /\ inv' = [inv EXCEPT ![p] = [h |-> h, pc |-> IF Guard THEN pc ELSE "noop"]]

Session == UNCHANGED <<wallet, publicKey, auto>>
NoSubmit == UNCHANGED <<net, poller, handed>>

\* The message of the info entry that follows the submission of a step.
SubmittedMessage(step) ==
  IF step = "create" THEN "Signed and submitted create"
  ELSE IF step = "extend" THEN "Signed and submitted extend"
  ELSE IF step = "use" THEN "Signed and submitted use"
  ELSE "Signed and submitted"

\* Ghost: the handler of p has just appended the info entry of `step`.
InfoAppended(p, step) ==
  LET h == hist'[HandlerSrc(p)] IN
  /\ h # <<>>
  /\ h[Len(h)].status = "info"
  /\ h[Len(h)].message = SubmittedMessage(step)

\* A slip: the receipt is dropped, no poll is started on it.
SubmittedNotPolled(p, step) ==
  /\ ReceiptCount < ReceiptBudget
  /\ net' = [net EXCEPT ![<<p, step>>] = "pending"]
  /\ UNCHANGED <<poller, handed>>

\* The network accepted the transaction of step `step` of p: its receipt is
\* pending, and the handler hands it to pollSignatureStatus without awaiting.
Submitted(p, step) ==
  /\ ReceiptCount < ReceiptBudget
  /\ net' = [net EXCEPT ![<<p, step>>] = "pending"]
  /\ poller' = [poller EXCEPT ![<<p, step>>] = [last |-> "none", n |-> 0]]
  /\ handed' = [handed EXCEPT ![<<p, step>>] =
                  Append(@, [info |-> InfoAppended(p, step)])]

\* Ghost: the submissions of p that have returned once this step is taken.
Returned(p) == Cardinality({s \in SubmitSteps : net'[<<p, s>>] # "none"})

\* A call that fetches an anchor is issued for p: getLatestBlockhash, or a
\* builder, which attaches the recent blockhash it fetches.
Fetch(p) ==
  anchors' = [anchors EXCEPT ![p].fetched = Append(@, [after |-> Returned(p)])]

NoFetch == UNCHANGED anchors

\* The transactions handed to the wallet are built on the anchors idxs.
BuiltOn(p, idxs) == anchors' = [anchors EXCEPT ![p].used = @ \o idxs]

\* A slip: one blockhash, fetched before the chain, serves every step.
HoistedBlockhash(p) == 1

\* `(await connection.getLatestBlockhash()).blockhash` in the argument list
\* of a step: the blockhash of the call just awaited.
LatestBlockhash(p) == Len(anchors[p].fetched)

\* A slip: a rejected wallet call is sent again.
RejectsThenRetries(p, h, pc) ==
  /\ At(p, h, pc)
  /\ IF pc \in SubmitSteps \cup {"sign"} /\ Len(wreq[p]) < 4
     THEN NoLog /\ Request(p, h, pc) /\ UNCHANGED <<inv, thrown>>
     ELSE (\E e \in ErrMsgs : Catch(p, e)) /\ UNCHANGED wreq
  /\ Session /\ NoSubmit /\ NoFetch

\* The call the handler awaits at pc rejects inside the try block.
Rejects(p, h, pc) ==
  /\ At(p, h, pc)
  /\ \E e \in ErrMsgs : Catch(p, e)
  /\ Session /\ NoSubmit /\ NoFetch /\ UNCHANGED wreq

----------------------------------------------------------------------------
\* handleSignAndSendTransaction and handleSignAndSendTransactionV0

SendEnter(p, h) ==
  /\ Enter(p, h, "build")
  /\ NoLog /\ Session /\ NoSubmit /\ UNCHANGED <<wreq, thrown>>
  /\ IF Guard THEN Fetch(p) ELSE NoFetch

\* createTransferTransaction(V0) resolved: info entry, then the wallet call
SendBuilt(p, h) ==
  /\ At(p, h, "build")
  /\ Log(Entry(HandlerSrc(p), "info", h, "Requesting signature"))
  /\ Request(p, h, "send")
  /\ BuiltOn(p, <<1>>)
  /\ Goto(p, "send")
  /\ Session /\ NoSubmit /\ UNCHANGED thrown

\* signAndSendTransaction resolved with a signature
SendSubmitted(p, h) ==
  /\ At(p, h, "send")
  /\ Log(Entry(HandlerSrc(p), "info", h, "Signed and submitted"))
  /\ Submitted(p, "send")
  /\ Goto(p, "done")
  /\ Session /\ NoFetch /\ UNCHANGED <<wreq, thrown>>

SendFlow(p, h) ==
  \/ SendEnter(p, h)
  \/ SendBuilt(p, h)
  \/ Rejects(p, h, "build")
  \/ SendSubmitted(p, h)
  \/ Rejects(p, h, "send")

handleSignAndSendTransaction(p) == SendFlow(p, "signAndSendTransaction")

handleSignAndSendTransactionV0(p) == SendFlow(p, "signAndSendTransactionV0")

----------------------------------------------------------------------------
\* handleSignAndSendTransactionV0WithLookupTable

LT == "signAndSendTransactionV0WithLookupTable"

\* the first getLatestBlockhash is the first await of the handler
LookupEnter(p) ==
  /\ Enter(p, LT, "blockhash1")
  /\ NoLog /\ Session /\ NoSubmit /\ UNCHANGED <<wreq, thrown>>
  /\ IF Guard THEN Fetch(p) ELSE NoFetch

\* getLatestBlockhash resolved: the step's utility sends its transaction to
\* the wallet (createAddressLookupTable, extendAddressLookupTable,
\* signAndSendTransactionV0WithLookupTable).
LookupDispatch(p, k) ==
  /\ At(p, LT, IF k = 1 THEN "blockhash1" ELSE IF k = 2 THEN "blockhash2" ELSE "blockhash3")
  /\ NoLog
  /\ Request(p, LT, LookupSteps[k])
  /\ BuiltOn(p, <<LatestBlockhash(p)>>)
  /\ Goto(p, LookupSteps[k])
  /\ Session /\ NoSubmit /\ UNCHANGED thrown

\* A slip: the rejection of a step is swallowed and the chain goes on.
LookupStepDoneAnyway(p, k) ==
  /\ At(p, LT, LookupSteps[k])
  /\ Goto(p, IF k = 1 THEN "blockhash2" ELSE IF k = 2 THEN "blockhash3" ELSE "done")
  /\ \/ /\ Log(Entry(HandlerSrc(p), "info", LT,
                     IF k = 1 THEN "Signed and submitted create"
                     ELSE IF k = 2 THEN "Signed and submitted extend"
                     ELSE "Signed and submitted use"))
        /\ Submitted(p, LookupSteps[k])
     \/ NoLog /\ NoSubmit
  /\ IF k < 3 THEN Fetch(p) ELSE NoFetch
  /\ Session /\ UNCHANGED <<wreq, thrown>>

\* Step k resolved with a signature: info entry, pollSignatureStatus (not
\* awaited), then the next getLatestBlockhash, or the end of the handler.
LookupStepDone(p, k) ==
  /\ At(p, LT, LookupSteps[k])
  /\ Log(Entry(HandlerSrc(p), "info", LT,
               IF k = 1 THEN "Signed and submitted create"
               ELSE IF k = 2 THEN "Signed and submitted extend"
               ELSE "Signed and submitted use"))
  /\ Submitted(p, LookupSteps[k])
  /\ IF k < 3 THEN Fetch(p) ELSE NoFetch
  /\ Goto(p, IF k = 1 THEN "blockhash2" ELSE IF k = 2 THEN "blockhash3" ELSE "done")
  /\ Session /\ UNCHANGED <<wreq, thrown>>

handleSignAndSendTransactionV0WithLookupTable(p) ==
  \/ LookupEnter(p)
  \/ \E k \in 1..3 : LookupDispatch(p, k)
  \/ \E k \in 1..3 : LookupStepDone(p, k)
  \/ \E pc \in {"blockhash1", "create", "blockhash2", "extend", "blockhash3", "use"} :
       Rejects(p, LT, pc)

----------------------------------------------------------------------------
\* handleSignTransaction and handleSignAllTransactions

SignEnter(p, h) ==
  /\ Enter(p, h, "build")
  /\ NoLog /\ Session /\ NoSubmit /\ UNCHANGED <<wreq, thrown>>
  /\ IF Guard THEN Fetch(p) ELSE NoFetch

\* the first createTransferTransaction of handleSignAllTransactions resolved
SignAllBuiltFirst(p) ==
  /\ At(p, "signAllTransactions", "build")
  /\ Goto(p, "build2")
  /\ NoLog /\ Session /\ NoSubmit /\ UNCHANGED <<wreq, thrown>>
  /\ Fetch(p)

\* A slip: the request for a signature is logged as a success.
SignBuiltAsSuccess(p, h, pc) ==
  /\ At(p, h, pc)
  /\ Log(Entry(HandlerSrc(p), "success", h, "Requesting signature"))
  /\ Request(p, h, "sign")
  /\ BuiltOn(p, [i \in 1..Len(anchors[p].fetched) |-> i])
  /\ Goto(p, "sign")
  /\ Session /\ NoSubmit /\ UNCHANGED thrown

\* the (last) transaction is built: info entry, then the signer
SignBuilt(p, h, pc) ==
  /\ At(p, h, pc)
  /\ Log(Entry(HandlerSrc(p), "info", h, "Requesting signature"))
  /\ Request(p, h, "sign")
  /\ BuiltOn(p, [i \in 1..Len(anchors[p].fetched) |-> i])
  /\ Goto(p, "sign")
  /\ Session /\ NoSubmit /\ UNCHANGED thrown

\* the signer resolved
Signed(p, h, method, message) ==
  /\ At(p, h, "sign")
  /\ Log(Entry(HandlerSrc(p), "success", method, message))
  /\ Goto(p, "done")
  /\ Session /\ NoSubmit /\ NoFetch /\ UNCHANGED <<wreq, thrown>>

handleSignTransaction(p) ==
  \/ SignEnter(p, "signTransaction")
  \/ SignBuilt(p, "signTransaction", "build")
  \/ Rejects(p, "signTransaction", "build")
  \/ Signed(p, "signTransaction", "signTransaction", "Transaction signed")
  \/ Rejects(p, "signTransaction", "sign")

handleSignAllTransactions(p) ==
  \/ SignEnter(p, "signAllTransactions")
  \/ SignAllBuiltFirst(p)
  \/ Rejects(p, "signAllTransactions", "build")
  \/ SignBuilt(p, "signAllTransactions", "build2")
  \/ Rejects(p, "signAllTransactions", "build2")
  \/ Signed(p, "signAllTransactions", "signAllTransactions", "Transactions signed")
  \/ Rejects(p, "signAllTransactions", "sign")

----------------------------------------------------------------------------
\* handleSignMessage, handleSignIn and handleSignInError

\* signMessage(message, signMsg) is the first await: no entry precedes it
SignMessageEnter(p) ==
  /\ Enter(p, "signMessage", "sign")
  /\ NoLog
  /\ IF Guard THEN Request(p, "signMessage", "sign") ELSE UNCHANGED wreq
  /\ Session /\ NoSubmit /\ NoFetch /\ UNCHANGED thrown

handleSignMessage(p) ==
  \/ SignMessageEnter(p)
  \/ Signed(p, "signMessage", "signMessage", "Message signed")
  \/ Rejects(p, "signMessage", "sign")

\* createSignInData / createSignInErrorData is awaited before the try block
SignInEnter(p, h) ==
  /\ Enter(p, h, "challenge")
  /\ NoLog /\ Session /\ NoSubmit /\ NoFetch /\ UNCHANGED <<wreq, thrown>>

\* the challenge is there: signIn(signInData, siws)
SignInChallenge(p, h) ==
  /\ At(p, h, "challenge")
  /\ NoLog
  /\ Request(p, h, "sign")
  /\ Goto(p, "sign")
  /\ Session /\ NoSubmit /\ NoFetch /\ UNCHANGED thrown

\* the challenge producer rejects: nothing catches it
SignInChallengeFails(p, h) ==
  /\ At(p, h, "challenge")
  /\ \E e \in ErrMsgs : Escape(p, e)
  /\ Session /\ NoSubmit /\ NoFetch /\ UNCHANGED wreq

handleSignIn(p) ==
  \/ SignInEnter(p, "signIn")
  \/ SignInChallenge(p, "signIn")
  \/ SignInChallengeFails(p, "signIn")
  \/ Signed(p, "signIn", "signIn", "Message signed")
  \/ Rejects(p, "signIn", "sign")

\* the success entry of handleSignInError has method 'signMessage'; its
\* catch block cannot tell the handler from handleSignIn: method 'signIn'
SignInErrorRejects(p) ==
  /\ At(p, "signInError", "sign")
  /\ \E e \in ErrMsgs :
       /\ Log(Entry(HandlerSrc(p), "error", "signIn", e))
       /\ thrown' = [thrown EXCEPT ![p] = [msg |-> e, at |-> "sign"]]
  /\ Goto(p, "done")
  /\ Session /\ NoSubmit /\ NoFetch /\ UNCHANGED wreq

handleSignInError(p) ==
  \/ SignInEnter(p, "signInError")
  \/ SignInChallenge(p, "signInError")
  \/ SignInChallengeFails(p, "signInError")
  \/ Signed(p, "signInError", "signMessage", "Message signed")
  \/ SignInErrorRejects(p)

----------------------------------------------------------------------------
\* handleConnect and handleDisconnect

\* A slip: the guard is left out.
LifecycleEnterUnguarded(p, h) ==
  /\ inv[p].pc = "idle"
  /\ inv' = [inv EXCEPT ![p] = [h |-> h, pc |-> h]]
  /\ NoLog /\ Session /\ NoSubmit /\ NoFetch /\ UNCHANGED <<wreq, thrown>>

LifecycleEnter(p, h) ==
  /\ Enter(p, h, h)
  /\ NoLog /\ Session /\ NoSubmit /\ NoFetch /\ UNCHANGED <<wreq, thrown>>

\* connect() resolved: the session already has its account, nothing to log
ConnectResolved(p) ==
  /\ At(p, "connect", "connect")
  /\ Goto(p, "done")
  /\ NoLog /\ Session /\ NoSubmit /\ NoFetch /\ UNCHANGED <<wreq, thrown>>

handleConnect(p) ==
  \/ LifecycleEnter(p, "connect")
  \/ ConnectResolved(p)
  \/ Rejects(p, "connect", "connect")

\* A slip: the warning entry is appended whether disconnect() resolved or
\* rejected.
DisconnectWarnsAnyway(p) ==
  /\ At(p, "disconnect", "disconnect")
  /\ \E e \in ErrMsgs :
       thrown' = [thrown EXCEPT ![p] = [msg |-> e, at |-> "disconnect"]]
  /\ Log(Entry(HandlerSrc(p), "warning", "disconnect", "bye"))
  /\ Goto(p, "done")
  /\ Session /\ NoSubmit /\ NoFetch /\ UNCHANGED wreq

\* disconnect() resolved: the account reference is gone (the provider may
\* keep or drop the selected wallet), then the warning entry
DisconnectResolved(p) ==
  /\ At(p, "disconnect", "disconnect")
  /\ publicKey' = FALSE
  /\ wallet' \in {wallet, FALSE}
  /\ Log(Entry(HandlerSrc(p), "warning", "disconnect", "bye"))
  /\ Goto(p, "done")
  /\ NoSubmit /\ NoFetch /\ UNCHANGED <<wreq, thrown, auto>>

handleDisconnect(p) ==
  \/ LifecycleEnter(p, "disconnect")
  \/ DisconnectResolved(p)
  \/ Rejects(p, "disconnect", "disconnect")

----------------------------------------------------------------------------
\* The network and pollSignatureStatus (utils; spec 3 and 4.4).

\* ConfirmationStatus moves forward only; failed is terminal.
NetAdvance(r) ==
  /\ \/ net[r] = "pending" /\ net' = [net EXCEPT ![r] = "confirmed"]
     \/ net[r] = "pending" /\ net' = [net EXCEPT ![r] = "failed"]
     \/ net[r] = "confirmed" /\ net' = [net EXCEPT ![r] = "finalized"]
  /\ NoLog /\ Session /\ NoFetch /\ UNCHANGED <<inv, poller, wreq, thrown, handed>>

Polling(r) == poller[r].last \in {"none", "pending"}

\* A slip: an answer that is an error, or the end of the budget, counts as
\* failed.
PollOutcomeFails(st, n) ==
  IF st \in {"confirmed", "finalized", "failed"} THEN st
  ELSE IF st = "transient" \/ n >= MaxAttempts THEN "failed"
  ELSE "pending"

\* What a poll makes of the n-th answer to its status query: an answer that
\* is an error counts as pending, and pending at the last attempt of the
\* budget is timed-out.
PollOutcome(st, n) ==
  IF st \in {"confirmed", "finalized", "failed"} THEN st
  ELSE IF n >= MaxAttempts THEN "timed-out"
  ELSE "pending"

PollStatus(st) ==
  IF st = "pending" THEN "info"
  ELSE IF st = "failed" THEN "error"
  ELSE IF st = "timed-out" THEN "warning"
  ELSE "success"

\* One status check of a running poll.  Progress is reported through
\* createLog on a change of status only.
PollCheck(r) ==
  /\ Polling(r)
  /\ poller[r].n < MaxAttempts
  /\ \E st \in {net[r], "transient"} :
       LET seen == PollOutcome(st, poller[r].n + 1) IN
       /\ poller' = [poller EXCEPT ![r] = [last |-> seen, n |-> @.n + 1]]
       /\ IF seen = poller[r].last THEN NoLog
          ELSE Log(Entry(r, PollStatus(seen), "pollSignatureStatus", seen))
  /\ Session /\ NoFetch /\ UNCHANGED <<inv, net, wreq, thrown, handed>>

----------------------------------------------------------------------------
\* autoSignIn, the autoConnect callback of the WalletProvider (App).
\* The provider calls it with the adapter of the selected wallet while no
\* account is connected, and connects the adapter itself when it answers
\* true.  It answers false after a verified sign-in: the account of a
\* sign-in is the one adapter.signIn leaves with the session, before
\* verifySignIn has seen the response.

AutoFrame == NoFetch /\ NoSubmit /\ UNCHANGED <<inv, wreq, thrown>>

\* A slip: the check for signIn is left out.
AutoStartUnchecked ==
  /\ auto.pc = "idle"
  /\ wallet /\ ~publicKey
  /\ \E hasSignIn \in BOOLEAN :
       auto' = [auto EXCEPT !.pc = "challenge", !.challenges = @ + 1,
                            !.adapter = IF hasSignIn THEN "signIn" ELSE "plain"]
  /\ NoLog /\ AutoFrame /\ UNCHANGED <<wallet, publicKey>>

\* `if (!('signIn' in adapter)) return true;`, else up to the first await
AutoStart ==
  /\ auto.pc = "idle"
  /\ wallet /\ ~publicKey
  /\ \E hasSignIn \in BOOLEAN :
       auto' = IF hasSignIn
               THEN [auto EXCEPT !.pc = "challenge", !.challenges = @ + 1,
                                 !.adapter = "signIn"]
               ELSE [auto EXCEPT !.pc = "true", !.adapter = "plain"]
  /\ NoLog /\ AutoFrame /\ UNCHANGED <<wallet, publicKey>>

\* createSignInData resolved: adapter.signIn(input)
AutoChallenge ==
  /\ auto.pc = "challenge"
  /\ auto' = [auto EXCEPT !.pc = "signIn", !.signIns = @ + 1]
  /\ NoLog /\ AutoFrame /\ UNCHANGED <<wallet, publicKey>>

\* createSignInData or adapter.signIn rejects: so does autoSignIn
AutoRejects ==
  /\ auto.pc \in {"challenge", "signIn"}
  /\ auto' = [auto EXCEPT !.pc = "threw"]
  /\ NoLog /\ AutoFrame /\ UNCHANGED <<wallet, publicKey>>

\* The session after adapter.signIn resolved: the adapter may have taken the
\* account of the response for its own, and then the connect effect logs it.
AutoAccount(activates) ==
  /\ publicKey' = (publicKey \/ activates)
  /\ IF publicKey' /\ ~publicKey
     THEN Log(Entry(EffectSrc, "success", "connect", "Connected to account"))
     ELSE NoLog
  /\ UNCHANGED wallet

\* adapter.signIn resolved with output; verifySignIn(input, output) is
\* synchronous: throw, or return false
AutoSignedIn ==
  /\ auto.pc = "signIn"
  /\ \E activates, valid \in BOOLEAN :
       /\ AutoAccount(activates)
       /\ auto' = [auto EXCEPT !.pc = IF valid THEN "false" ELSE "threw",
                               !.verdict = IF valid THEN "valid" ELSE "invalid",
                               !.activated = activates /\ ~publicKey]
  /\ AutoFrame

\* autoSignIn answered true: the provider connects the adapter
AutoConnect ==
  /\ auto.pc = "true"
  /\ wallet /\ ~publicKey
  /\ publicKey' = TRUE
  /\ Log(Entry(EffectSrc, "success", "connect", "Connected to account"))
  /\ auto' = [auto EXCEPT !.pc = "connected"]
  /\ AutoFrame /\ UNCHANGED wallet

autoSignIn ==
  \/ AutoStart
  \/ AutoChallenge
  \/ AutoRejects
  \/ AutoSignedIn
  \/ AutoConnect

----------------------------------------------------------------------------
Next ==
  \/ SelectWallet
  \/ WalletConnected
  \/ ClearLogs
  \/ \E p \in Procs :
       \/ handleSignAndSendTransaction(p)
       \/ handleSignAndSendTransactionV0(p)
       \/ handleSignAndSendTransactionV0WithLookupTable(p)
       \/ handleSignTransaction(p)
       \/ handleSignAllTransactions(p)
       \/ handleSignMessage(p)
       \/ handleSignIn(p)
       \/ handleSignInError(p)
       \/ handleConnect(p)
       \/ handleDisconnect(p)
  \/ \E r \in Rcpts :
       \/ NetAdvance(r)
       \/ PollCheck(r)

Spec == Init /\ [][Next]_vars

\* App: the provider with autoSignIn, and the handlers of the first version
NextApp ==
  \/ SelectWallet
  \/ WalletConnected
  \/ ClearLogs
  \/ autoSignIn
  \/ \E p \in Procs :
       \/ handleSignMessage(p)
       \/ handleSignIn(p)
       \/ handleSignInError(p)
       \/ handleConnect(p)
       \/ handleDisconnect(p)

SpecApp == Init /\ [][NextApp]_vars

----------------------------------------------------------------------------
\* Properties.

IsPrefix(s, t) == Len(s) <= Len(t) /\ SubSeq(t, 1, Len(s)) = s

AtLeastConfirmed(r) == net[r] \in {"confirmed", "finalized"}

IsLookup(p) == inv[p].h = LT

\* C1: the transaction that uses the lookup table is with the wallet only
\* when the receipt of the extension has reached confirmed or finalized.
C1_UseOnlyAfterExtendConfirmed ==
  \A p \in Procs :
    (IsLookup(p) /\ inv[p].pc = "use") => AtLeastConfirmed(<<p, "extend">>)

\* C2: extendAddressLookupTable is called only when the receipt of
\* createAddressLookupTable has reached confirmed or finalized.
C2_ExtendOnlyAfterCreateConfirmed ==
  \A p \in Procs :
    (IsLookup(p) /\ inv[p].pc = "extend") => AtLeastConfirmed(<<p, "create">>)

\* C3: the step in which an asynchronous call of an invocation fails appends
\* exactly one entry to the log, an error entry with the message of the
\* failure.
C3_EveryFailureLogged ==
  [][\A p \in Procs :
       (thrown[p] = NoError /\ thrown'[p] # NoError) =>
         /\ Len(logs') = Len(logs) + 1
         /\ IsPrefix(logs, logs')
         /\ logs'[Len(logs')].status = "error"
         /\ logs'[Len(logs')].message = thrown'[p].msg]_vars

\* C4: a handler invoked with no account reference or no wallet returns at
\* once: nothing is awaited (no builder, signer, network or poller call) and
\* the log and the session are as before.
C4_NotConnectedNoOp ==
  [][\A p \in Procs :
       (inv[p].pc = "idle" /\ inv'[p].pc # "idle" /\ ~Connected) =>
         /\ inv'[p].pc = "noop"
         /\ UNCHANGED <<logs, wreq, net, poller, wallet, publicKey, thrown>>]_vars

C4_Witness ==
  \E p \in Procs :
    /\ inv[p].pc = "noop"
    /\ wallet /\ ~publicKey
    /\ wreq[p] = <<>> /\ logs = <<>>

\* C5: every request sent to the wallet's signer is sent while an account
\* reference and a wallet are connected.
C5_RequestsOnlyWhileConnected ==
  \A p \in Procs : \A i \in DOMAIN wreq[p] : wreq[p][i].conn

\* C6 as claimed: every step leaves the old log a prefix of the new one.
C6_AppendOnly == [][IsPrefix(logs, logs')]_vars

\* C6 as amended: every step other than clearLogs leaves the old log a
\* prefix of the new one; clearLogs leaves the log empty.
C6_AppendOnlyButClear ==
  [][IF ClearLogs THEN logs' = <<>> ELSE IsPrefix(logs, logs')]_vars

\* the log was cleared after a handler had appended to it, and appended to
\* again
C6_Witness ==
  /\ \E p \in Procs : infoLogged[p] /\ inv[p].pc = "done"
  /\ Len(logs) = 1
  /\ logs[1].src[2] \notin {"handler", "effect"}

FromSrc(s, e) == e.src = s

Proj(l, s) == SelectSeq(l, LAMBDA e : FromSrc(s, e))

RECURSIVE SumLen(_, _)
SumLen(f, S) ==
  IF S = {} THEN 0
  ELSE LET s == CHOOSE x \in S : TRUE IN Len(f[s]) + SumLen(f, S \ {s})

\* C7: whatever the interleaving of invocations, pollers and the connect
\* effect, the log holds every entry passed to createLog since it was last
\* cleared, once each, those of one source in the order it passed them.
C7_LogIsInterleaving ==
  /\ \A s \in Sources : Proj(logs, s) = emitted[s]
  /\ Len(logs) = SumLen(emitted, Sources)

\* two invocations and a poller have appended in turn
C7_Witness ==
  \E i, j, k, l \in DOMAIN logs :
    /\ i < j /\ j < k /\ k < l
    /\ logs[i].src = HandlerSrc(1)
    /\ logs[j].src = HandlerSrc(2)
    /\ logs[k].src \in Rcpts
    /\ logs[l].src = HandlerSrc(1)

\* C8: the first request an invocation sends to the wallet's signer comes
\* after an info entry of that invocation.
C8_InfoBeforeFirstRequest ==
  \A p \in Procs : wreq[p] # <<>> => wreq[p][1].info

\* C9: the lookup-table handler sends create, extend, use in this order, a
\* step only when every earlier step has a receipt, and starts a poll only
\* on a receipt.
C9_LookupChain ==
  \A p \in Procs :
    IsLookup(p) =>
      /\ Len(wreq[p]) <= 3
      /\ \A k \in DOMAIN wreq[p] :
           /\ wreq[p][k].step = LookupSteps[k]
           /\ \A j \in 1..(k - 1) : net[<<p, LookupSteps[j]>>] # "none"
      /\ \A k \in 1..3 :
           poller[<<p, LookupSteps[k]>>].last # "off" =>
             /\ net[<<p, LookupSteps[k]>>] # "none"
             /\ k <= Len(wreq[p])
      /\ thrown[p] # NoError => inv[p].pc = "done"

\* all three steps were sent and accepted
C9_Witness ==
  \E p \in Procs :
    /\ IsLookup(p)
    /\ Len(wreq[p]) = 3
    /\ net[<<p, "use">>] # "none"

\* the chain stopped at a failed extend
C9_WitnessAbort ==
  \E p \in Procs :
    /\ IsLookup(p)
    /\ thrown[p].at = "extend"
    /\ Len(wreq[p]) = 2
    /\ poller[<<p, "create">>].last # "off"

\* The step of the lookup-table use-case an await belongs to.
StepOf(pc) ==
  IF pc \in {"blockhash1", "create"} THEN "create"
  ELSE IF pc \in {"blockhash2", "extend"} THEN "extend"
  ELSE "use"

\* C10: the error entries of two lookup-table invocations that failed at
\* different steps differ.
C10_ErrorNamesStep ==
  \A i, j \in DOMAIN logs :
    LET a == logs[i]
        b == logs[j]
    IN (/\ a.status = "error" /\ b.status = "error"
        /\ a.src[2] = "handler" /\ b.src[2] = "handler"
        /\ IsLookup(a.src[1]) /\ IsLookup(b.src[1])
        /\ StepOf(thrown[a.src[1]].at) # StepOf(thrown[b.src[1]].at))
       => Visible(a) # Visible(b)

\* C11: when verifySignIn rejects the response, autoSignIn throws, having
\* created one challenge and called adapter.signIn once, and the account of
\* the response has not become the session's account.
C11_FailedVerificationAborts ==
  auto.verdict = "invalid" =>
    /\ auto.pc = "threw"
    /\ auto.challenges = 1
    /\ auto.signIns = 1
    /\ ~auto.activated

HistOf(p) == hist[HandlerSrc(p)]

Has(l, message) == \E i \in DOMAIN l : l[i].message = message

\* The caller of the poll on r has disconnected, or has cleared the log
\* since it handed r over.
Abandoned(r) ==
  /\ handed[r] # <<>>
  /\ \/ ~publicKey
     \/ /\ Has(HistOf(r[1]), SubmittedMessage(r[2]))
        /\ ~Has(emitted[HandlerSrc(r[1])], SubmittedMessage(r[2]))

\* C12: once the caller of a poll has abandoned it (disconnect, cleared
\* log), the poll makes no further status check and appends no further entry.
C12_NoPollAfterAbandon ==
  [][\A r \in Rcpts :
       Abandoned(r) => (poller'[r] = poller[r] /\ hist'[r] = hist[r])]_vars

C14_NoResubmission ==
  /\ \A p \in Procs :
       /\ \A i, j \in DOMAIN wreq[p] :
            wreq[p][i].step = wreq[p][j].step => i = j
       /\ Len(anchors[p].used) <= Len(anchors[p].fetched)
  /\ \A r \in Rcpts : Len(handed[r]) <= 1

\* a lookup-table invocation went through its three steps although the poll
\* on its first receipt ended failed or timed-out
C14_Witness ==
  \E p \in Procs :
    /\ IsLookup(p) /\ inv[p].pc = "done"
    /\ Len(wreq[p]) = 3
    /\ poller[<<p, "create">>].last \in {"failed", "timed-out"}
    /\ Len(handed[<<p, "create">>]) = 1

\* C15: every receipt has been handed to pollSignatureStatus once, after
\* the info entry of its submission, and what its poll reported through
\* createLog is in the log of the handlers.
C15_ReceiptPolledOnce ==
  \A r \in Rcpts :
    /\ net[r] # "none" <=> Len(handed[r]) = 1
    /\ net[r] # "none" =>
         /\ handed[r][1].info
         /\ poller[r].last # "off"
    /\ Proj(logs, r) = emitted[r]
    /\ poller[r].last \notin {"off", "none"} =>
         /\ hist[r] # <<>>
         /\ hist[r][Len(hist[r])].message = poller[r].last

\* the log holds the info entry of a submission and, after it, what the
\* poll on the receipt reported
C15_Witness ==
  \E r \in Rcpts : \E i, j \in DOMAIN logs :
    /\ i < j
    /\ logs[i].src = HandlerSrc(r[1])
    /\ logs[i].message = SubmittedMessage(r[2])
    /\ logs[j].src = r
    /\ handed[r] = <<[info |-> TRUE]>>

\* C16: the method of every entry a handler appended is the name of the
\* handler's use-case.
C16_MethodNamesUseCase ==
  \A p \in Procs : \A i \in DOMAIN HistOf(p) : HistOf(p)[i].method = inv[p].h

Injective(q) == \A i, j \in DOMAIN q : q[i] = q[j] => i = j

\* C17: no anchor serves two transactions; step k of the lookup-table chain
\* is built on the k-th blockhash fetched, whose fetch was issued when k - 1
\* submissions had returned; the two transactions of sign-all come from two
\* builder calls.
C17_NoAnchorReuse ==
  \A p \in Procs :
    LET a == anchors[p] IN
    /\ Injective(a.used)
    /\ \A k \in DOMAIN a.used : a.used[k] \in DOMAIN a.fetched
    /\ IsLookup(p) =>
         \A k \in DOMAIN a.used :
           /\ a.used[k] = k
           /\ a.fetched[k].after = k - 1
    /\ (inv[p].h = "signAllTransactions" /\ a.used # <<>>) => a.used = <<1, 2>>

\* the three steps of a lookup-table invocation were built and sent
C17_Witness ==
  \E p \in Procs :
    /\ IsLookup(p)
    /\ Len(anchors[p].used) = 3
    /\ Len(anchors[p].fetched) = 3

Terminal(e) == e.status \in {"success", "error"}

\* C18: a finished invocation of handleSignTransaction or
\* handleSignAllTransactions that passed the guard has appended one terminal
\* entry (success or error), as its last entry: success when nothing was
\* thrown, error otherwise.
C18_OneTerminalEntry ==
  \A p \in Procs :
    (inv[p].h \in {"signTransaction", "signAllTransactions"} /\ inv[p].pc = "done") =>
      LET H == HistOf(p) IN
      /\ H # <<>>
      /\ Cardinality({i \in DOMAIN H : Terminal(H[i])}) = 1
      /\ Terminal(H[Len(H)])
      /\ H[Len(H)].status = IF thrown[p] = NoError THEN "success" ELSE "error"

\* the signer rejected the batch of handleSignAllTransactions
C18_Witness ==
  \E p \in Procs :
    /\ At(p, "signAllTransactions", "done")
    /\ thrown[p].at = "sign"
    /\ Len(HistOf(p)) = 2
    /\ Len(wreq[p]) = 1

\* C19: handleDisconnect has appended nothing while disconnect() is
\* pending, and one entry once it is over: the warning entry if disconnect()
\* resolved, else an error entry with the message of the failure; both with
\* method disconnect.
C19_DisconnectOneEntry ==
  \A p \in Procs :
    inv[p].h = "disconnect" =>
      LET H == HistOf(p) IN
      /\ inv[p].pc \in {"disconnect", "noop"} => H = <<>>
      /\ inv[p].pc = "done" =>
           /\ Len(H) = 1
           /\ H[1].method = "disconnect"
           /\ IF thrown[p] = NoError
              THEN H[1].status = "warning"
              ELSE H[1].status = "error" /\ H[1].message = thrown[p].msg

\* disconnect() failed: the account is still connected
C19_Witness ==
  \E p \in Procs :
    /\ At(p, "disconnect", "done")
    /\ thrown[p] # NoError
    /\ publicKey

\* C20: a step of handleConnect leaves the session as it is; it gets to
\* the connect() call only with an account reference and a wallet, and
\* invoked without them it returns with nothing appended.
C20_ConnectOnlyWhenConnected ==
  [][\A p \in Procs :
       (inv'[p].h = "connect" /\ inv'[p] # inv[p]) =>
         /\ UNCHANGED <<wallet, publicKey>>
         /\ inv'[p].pc = "connect" => Connected
         /\ (inv[p].pc = "idle" /\ ~Connected) =>
              (inv'[p].pc = "noop" /\ UNCHANGED <<logs, hist>>)]_vars

\* handleConnect was invoked twice with a wallet and no account: still no
\* account
C20_Witness ==
  /\ \A p \in Procs : At(p, "connect", "noop")
  /\ wallet /\ ~publicKey
  /\ logs = <<>>

\* autoSignIn has answered true (the provider may have connected since).
AnsweredTrue == auto.pc \in {"true", "connected"}

\* C21: autoSignIn answers true exactly when the adapter has no signIn, and
\* then has created no challenge and called no signer; with signIn it
\* creates one challenge when called, calls adapter.signIn at most once,
\* once whenever the challenge was produced, and answers false only after
\* one adapter.signIn call whose response verifySignIn accepted.
C21_AutoSignInAnswers ==
  /\ auto.adapter = "none" <=> auto.pc = "idle"
  /\ AnsweredTrue <=> auto.adapter = "plain"
  /\ auto.adapter = "plain" =>
       /\ auto.challenges = 0 /\ auto.signIns = 0
       /\ auto.verdict = "none"
  /\ auto.adapter = "signIn" =>
       /\ auto.challenges = 1
       /\ auto.signIns <= 1
       /\ auto.pc = "challenge" => auto.signIns = 0
       /\ auto.pc \in {"signIn", "false"} => auto.signIns = 1
       /\ auto.verdict # "none" => auto.signIns = 1
  /\ auto.pc = "false" <=> auto.verdict = "valid"

\* autoSignIn answered false after a verified sign-in
C21_Witness ==
  /\ auto.pc = "false"
  /\ auto.adapter = "signIn"
  /\ auto.challenges = 1 /\ auto.signIns = 1

\* autoSignIn answered true for an adapter without signIn
C21_WitnessTrue ==
  /\ AnsweredTrue
  /\ auto.adapter = "plain"
  /\ auto.signIns = 0

====
